---- MODULE Spec2Model ----
(***************************************************************************)
(* Persistence model of The Mirror: the Supabase tables of schema.sql and  *)
(* the store operations of MIGRATION_GUIDE.md, the schema README and       *)
(* HACKATHON_EXECUTION_PLAN.md that read and write them.                   *)
(*                                                                         *)
(* Each store has its own specification (SpecSession, SpecSessionSeq,      *)
(* SpecConv, SpecJournal, SpecFollowup, SpecChat, SpecMeditation); Spec is *)
(* their composition, and SpecIsolation runs the read operations on every  *)
(* small database.  Every DB statement is one atomic step; a handler that  *)
(* issues several statements is a process whose statements interleave with *)
(* those of other requests.                                                *)
(***************************************************************************)
EXTENDS Integers, Sequences, FiniteSets, TLC

\* ------------------------------------------------------------------ bounds
MaxSessions == 2
MaxEndCalls == 2
MaxInserts == 2
MaxHist == 3
MaxEntries == 2
MaxFollowups == 2
MaxMessages == 4
MaxMedSessions == 2
MaxReflections == 2
MaxRows == 2
MaxSockets == 4
MaxText == 2
MaxPageMessages == 5

\* --------------------------------------------------------------- constants
Users == {"u1", "u2"}
\* two requests in progress at a time
Procs == {"p1", "p2"}
\* SQL NULL of a nullable TIMESTAMPTZ / UUID column (ids and times start at 1)
NULL == 0
SessionKeys == {"default", "journal"}
AgentStates == {"A", "B"}
Contents == {"work", "rest", "walk"}
\* directions of embedding vectors, 45 degrees apart, and the cosine (x100)
\* of the angle between two directions that are d steps apart
Directions == 1..3
Cos100 == <<100, 71, 0>>
\* match_threshold x100 (0.5 in the README call, and a value a similarity attains)
Thresholds == {50, 71}
Counts == 1..2
Messages == {"hello"}
Durations == {300, 600}
\* 'match_threshold': 0.7 of search_memories, x100
SearchThreshold == 70

VARIABLES
    rls,            \* TRUE: requests run as an authenticated user under the RLS
                    \* policies of schema.sql; FALSE: service role, RLS bypassed
    chat_sessions,  \* table chat_sessions, row id = index
    session_clock,  \* NOW() as seen by the UPDATE statements on chat_sessions
    goc,            \* per request: get_or_create_chat_session in progress
    end_calls,      \* per session: end-session statements that matched the row
    after_first_end,\* per session: ended_at as left by the first such statement
    conversation_history, \* table conversation_history
    conv_clock,     \* NOW() as seen by the INSERTs into conversation_history
    observed,       \* the (owner, key) whose calls hist and loaded follow
    hist,           \* the last save / clear calls for observed that returned normally
    loaded,         \* what the last load for observed since its last write returned:
                    \* a state, "absent", or "raised" when it raised an error
    journal_entries,   \* table journal_entries, row id = index = creation order
    journal_followups, \* table journal_followups, row id = index
    pf,             \* the process_follow_up request in progress
    found,          \* the journal call (query or write) in progress and its result
    chat_messages,  \* table chat_messages, row id = index = commit order
    msg_clock,      \* NOW() as seen by the INSERTs into chat_messages
    cm,             \* per request: the chat_message handler past its session lookup
    listed,         \* the chat history query in progress and its result
    meditation_sessions,    \* table meditation_sessions, row id = index
    meditation_reflections, \* table meditation_reflections, row id = index
    med_clock,      \* now() as seen by the statements on meditation_sessions
    sr,             \* per request: save_reflection in progress
    reflections_fk, \* TRUE: meditation_reflections.session_id REFERENCES
                    \* meditation_sessions (schema.sql); FALSE: the simplified
                    \* schema, session_id a plain UUID and no RLS
    ar,             \* the last insert of a reflection on a given session id
    cr,             \* the chat_message request of the agent in progress, and per
                    \* user the state the last request handed to save_state
    zen,            \* the zen meditation page: its React state, its refs, its
                    \* interval and the dependencies its effects last ran with
    term,           \* the terminal meditation page: isSessionActive, ws and the
                    \* WebSockets startSession created
    council,        \* the Council page: messages, isLoading, the input's text,
                    \* the request in flight and the text last submitted as typed
    counsel         \* the Counsel page: messages, input, isLoading and the
                    \* requests in flight

schemaVars == <<rls, reflections_fk>>

uiVars == <<zen, term, council, counsel>>

sessionVars == <<chat_sessions, session_clock, goc, end_calls, after_first_end>>

convVars == <<conversation_history, conv_clock, observed, hist, loaded>>

journalVars == <<journal_entries, journal_followups, pf, found>>

chatVars == <<chat_messages, msg_clock, cm, listed>>

medVars == <<meditation_sessions, meditation_reflections, med_clock, sr>>

\* ------------------------------------------------------------ row level security
\* "Users can view own chat sessions": USING (auth.uid() = user_id)
chat_sessions_select_policy(caller, row) == (~rls) \/ row.user_id = caller

\* "Users can update own chat sessions": USING (auth.uid() = user_id)
chat_sessions_update_policy(caller, row) == (~rls) \/ row.user_id = caller

\* ------------------------------------------------------------------- session store
SessionIds == 1..Len(chat_sessions)

OpenSessions(u) ==
    {i \in SessionIds : chat_sessions[i].user_id = u /\ chat_sessions[i].ended_at = NULL}

\* .eq('user_id', user_id).is_('ended_at','null').order('started_at', desc).limit(1)
select_open_session_unfiltered(u) ==
    LET all == {i \in SessionIds : chat_sessions[i].user_id = u
                                   /\ chat_sessions_select_policy(u, chat_sessions[i])}
    IN  {i \in all : \A j \in all : chat_sessions[j].started_at <= chat_sessions[i].started_at}

select_open_session(u) ==
    LET open == {i \in SessionIds : chat_sessions[i].user_id = u
                                    /\ chat_sessions[i].ended_at = NULL
                                    /\ chat_sessions_select_policy(u, chat_sessions[i])}
    IN  {i \in open : \A j \in open : chat_sessions[j].started_at <= chat_sessions[i].started_at}

GocIdle == [pc |-> "idle", user_id |-> "u1", ret |-> NULL,
            created |-> FALSE, raced |-> FALSE]

InFlight(p) == goc[p].pc = "insert"

\* get_or_create_chat_session, first statement: the SELECT, and the
\* `if result.data: return result.data[0]` that follows it
get_or_create_select(p, u) ==
    /\ goc[p].pc \in {"idle", "done"}
    /\ LET res     == select_open_session(u)
           others  == {q \in Procs \ {p} : InFlight(q)}
       IN  goc' = [q \in Procs |->
                    IF q = p
                    THEN [pc       |-> IF res = {} THEN "insert" ELSE "done",
                          user_id  |-> u,
                          ret      |-> IF res = {} THEN NULL ELSE CHOOSE i \in res : TRUE,
                          created  |-> FALSE,
                          raced    |-> others # {}]
                    ELSE IF q \in others
                         THEN [goc[q] EXCEPT !.raced = TRUE]
                         ELSE goc[q]]
    /\ UNCHANGED <<schemaVars, uiVars, cr, ar, chatVars, medVars, chat_sessions, session_clock, end_calls, after_first_end, convVars, journalVars>>

\* get_or_create_chat_session, second statement: insert({'user_id': user_id})
get_or_create_insert(p) ==
    /\ goc[p].pc = "insert"
    /\ Len(chat_sessions) < MaxSessions
    /\ chat_sessions' = Append(chat_sessions,
                               [user_id    |-> goc[p].user_id,
                                started_at |-> Len(chat_sessions) + 1,
                                ended_at   |-> NULL])
    /\ goc' = [goc EXCEPT ![p].pc = "done",
                          ![p].ret = Len(chat_sessions) + 1,
                          ![p].created = TRUE]
    /\ end_calls' = Append(end_calls, 0)
    /\ after_first_end' = Append(after_first_end, NULL)
    /\ UNCHANGED <<schemaVars, uiVars, cr, ar, chatVars, medVars, session_clock, convVars, journalVars>>

\* UPDATE chat_sessions SET ended_at = NOW() WHERE id = sid
set_ended_at(row, t) == [row EXCEPT !.ended_at = t]

end_session(caller, sid) ==
    /\ sid \in SessionIds
    /\ end_calls[sid] < MaxEndCalls
    /\ IF chat_sessions_update_policy(caller, chat_sessions[sid])
       THEN /\ chat_sessions' = [chat_sessions EXCEPT ![sid] = set_ended_at(@, session_clock)]
            /\ session_clock' = session_clock + 1
            /\ end_calls' = [end_calls EXCEPT ![sid] = @ + 1]
            /\ after_first_end' = [after_first_end EXCEPT
                                     ![sid] = IF end_calls[sid] = 0
                                              THEN chat_sessions'[sid].ended_at ELSE @]
       ELSE UNCHANGED <<chat_sessions, session_clock, end_calls, after_first_end>>
    /\ UNCHANGED <<schemaVars, uiVars, cr, ar, chatVars, medVars, goc, convVars, journalVars>>

\* ------------------------------------------------------- conversation-state store
StoreKeys == Users \X SessionKeys

\* "Users can view own conversation history": USING (auth.uid() = user_id)
conversation_history_select_policy(caller, row) == (~rls) \/ row.user_id = caller

\* "Users can insert own conversation history": WITH CHECK (auth.uid() = user_id)
conversation_history_insert_policy(caller, row) == (~rls) \/ row.user_id = caller

\* conversation_history has no FOR DELETE policy: under RLS no row is deletable
conversation_history_delete_policy(caller, row) == ~rls

\* the unique indexes of conversation_history: the primary key only
\* (conversation_history_idx on (user_id, session_key) is not UNIQUE)
conversation_history_unique == {<<"id">>}

RowsOf(u, k) ==
    {i \in 1..Len(conversation_history) :
        conversation_history[i].user_id = u /\ conversation_history[i].session_key = k}

\* INSERT ... ON CONFLICT (on_conflict) DO UPDATE SET ...; the row carries no id.
\* An ON CONFLICT target without a matching unique index is rejected (the
\* statement raises); on the primary key a fresh uuid never conflicts.
upsert(caller, row, on_conflict) ==
    IF on_conflict \notin conversation_history_unique
       \/ ~conversation_history_insert_policy(caller, row)
    THEN [ok |-> FALSE, table |-> conversation_history]
    ELSE IF on_conflict = <<"user_id", "session_key">>
              /\ RowsOf(row.user_id, row.session_key) # {}
         THEN [ok |-> TRUE,
               table |-> [i \in 1..Len(conversation_history) |->
                            IF i \in RowsOf(row.user_id, row.session_key)
                            THEN row ELSE conversation_history[i]]]
         ELSE [ok |-> TRUE, table |-> Append(conversation_history, row)]

\* load_state: .eq(user_id).eq(session_key).order('updated_at', desc).limit(1);
\* result.data[0]['agent_state'] if result.data else None
load_state_result(u, k) ==
    LET vis == {i \in RowsOf(u, k) :
                   conversation_history_select_policy(u, conversation_history[i])}
    IN  IF vis = {} THEN "absent"
        ELSE LET top == CHOOSE i \in vis : \A j \in vis :
                           conversation_history[j].updated_at <= conversation_history[i].updated_at
             IN  conversation_history[top].agent_state

Record(h, e) == IF Len(h) < MaxHist THEN Append(h, e) ELSE Append(Tail(h), e)

\* the observers follow the calls made for the observed (owner, key)
write_completes(u, k, e) ==
    IF <<u, k>> = observed
    THEN /\ hist' = Record(hist, e)
         /\ loaded' = "not_loaded"
    ELSE UNCHANGED <<hist, loaded>>

\* ConversationStore.save_state: upsert(..., on_conflict='user_id,session_key')
\* inside try/except that prints and returns; db_ok: the database answers
save_state(u, s, k, db_ok) ==
    /\ LET row == [user_id |-> u, session_key |-> k,
                   agent_state |-> s, updated_at |-> conv_clock]
           res == IF db_ok THEN upsert(u, row, <<"user_id", "session_key">>)
                  ELSE [ok |-> FALSE, table |-> conversation_history]
       IN  /\ res.ok => conv_clock <= MaxInserts
           /\ conversation_history' = res.table
           /\ conv_clock' = IF res.ok THEN conv_clock + 1 ELSE conv_clock
    /\ write_completes(u, k, [op |-> "save", state |-> s])
    /\ UNCHANGED <<schemaVars, uiVars, cr, ar, chatVars, medVars, observed, sessionVars, journalVars>>

\* save_conversation_state (schema README): upsert({...}) with no on_conflict,
\* which PostgREST resolves on the primary key
\* (no try/except: a statement that fails raises to the caller)
save_conversation_state(u, k, s, db_ok) ==
    /\ LET row == [user_id |-> u, session_key |-> k,
                   agent_state |-> s, updated_at |-> conv_clock]
           res == IF db_ok THEN upsert(u, row, <<"id">>)
                  ELSE [ok |-> FALSE, table |-> conversation_history]
       IN  /\ res.ok => conv_clock <= MaxInserts
           /\ conversation_history' = res.table
           /\ conv_clock' = IF res.ok THEN conv_clock + 1 ELSE conv_clock
           /\ IF res.ok THEN write_completes(u, k, [op |-> "save", state |-> s])
              ELSE UNCHANGED <<hist, loaded>>
    /\ UNCHANGED <<schemaVars, uiVars, cr, ar, chatVars, medVars, observed, sessionVars, journalVars>>

\* load_conversation_state (schema README): .single().execute() raises unless
\* exactly one row matches; no try/except
load_conversation_state_result(u, k) ==
    LET vis == {i \in RowsOf(u, k) :
                   conversation_history_select_policy(u, conversation_history[i])}
    IN  IF Cardinality(vis) = 1
        THEN conversation_history[CHOOSE i \in vis : TRUE].agent_state
        ELSE "raised"

\* ConversationStore.load_state: `except Exception` prints and returns None
load_state(u, k, db_ok) ==
    /\ loaded' = IF <<u, k>> # observed THEN loaded
                 ELSE IF db_ok THEN load_state_result(u, k) ELSE "absent"
    /\ UNCHANGED <<schemaVars, uiVars, cr, ar, chatVars, medVars, observed, sessionVars, journalVars, conversation_history, conv_clock, hist>>

load_conversation_state(u, k, db_ok) ==
    /\ loaded' = IF <<u, k>> # observed THEN loaded
                 ELSE IF db_ok THEN load_conversation_state_result(u, k) ELSE "raised"
    /\ UNCHANGED <<schemaVars, uiVars, cr, ar, chatVars, medVars, observed, sessionVars, journalVars, conversation_history, conv_clock, hist>>

\* ConversationStore.clear_state: .delete().eq(user_id).eq(session_key) inside
\* try/except that prints and returns
clear_state(u, k, db_ok) ==
    /\ conversation_history' =
          IF db_ok
          THEN SelectSeq(conversation_history,
                         LAMBDA row : ~(/\ row.user_id = u /\ row.session_key = k
                                        /\ conversation_history_delete_policy(u, row)))
          ELSE conversation_history
    /\ write_completes(u, k, [op |-> "clear", state |-> "absent"])
    /\ UNCHANGED <<schemaVars, uiVars, cr, ar, chatVars, medVars, observed, sessionVars, journalVars, conv_clock>>

\* agent.get_initial_state(user_id)
get_initial_state == "A"

\* agent.process_message(state, message): the conversation one message longer
process_message(s) == CASE s = "A" -> "B" [] s = "B" -> "C" [] OTHER -> "D"

CrIdle == [pc |-> "idle", user_id |-> "u1", state |-> "none",
           last |-> [u \in Users |-> "none"]]

\* chat_message: state = load_state(user_id); the initial state if None
cr_load(u, db_ok) ==
    /\ cr.pc = "idle"
    /\ cr.last[u] # "D"
    /\ LET got == IF db_ok THEN load_state_result(u, "default") ELSE "absent"
       IN  cr' = [cr EXCEPT !.pc = "process", !.user_id = u,
                            !.state = IF got = "absent" THEN get_initial_state ELSE got]
    /\ loaded' = IF <<u, "default">> # observed THEN loaded
                 ELSE IF db_ok THEN load_state_result(u, "default") ELSE "absent"
    /\ UNCHANGED <<schemaVars, uiVars, ar, chatVars, medVars, observed, sessionVars,
                   journalVars, conversation_history, conv_clock, hist>>

\* chat_message: updated_state = process_message(state, message), then
\* save_state(user_id, updated_state) and the response
cr_save(db_ok) ==
    /\ cr.pc = "process"
    /\ LET u   == cr.user_id
           s   == process_message(cr.state)
           row == [user_id |-> u, session_key |-> "default",
                   agent_state |-> s, updated_at |-> conv_clock]
           res == IF db_ok THEN upsert(u, row, <<"user_id", "session_key">>)
                  ELSE [ok |-> FALSE, table |-> conversation_history]
       IN  /\ res.ok => conv_clock <= MaxInserts
           /\ conversation_history' = res.table
           /\ conv_clock' = IF res.ok THEN conv_clock + 1 ELSE conv_clock
           /\ write_completes(u, "default", [op |-> "save", state |-> s])
           /\ cr' = [cr EXCEPT !.pc = "idle", !.state = "none", !.last[u] = s]
    /\ UNCHANGED <<schemaVars, uiVars, ar, chatVars, medVars, observed, sessionVars, journalVars>>

\* reset_conversation: clear_state(user_id)
reset_conversation(u, db_ok) ==
    /\ cr.pc = "idle"
    /\ conversation_history' =
          IF db_ok
          THEN SelectSeq(conversation_history,
                         LAMBDA row : ~(/\ row.user_id = u /\ row.session_key = "default"
                                        /\ conversation_history_delete_policy(u, row)))
          ELSE conversation_history
    /\ write_completes(u, "default", [op |-> "clear", state |-> "absent"])
    /\ cr' = [cr EXCEPT !.last[u] = "none"]
    /\ UNCHANGED <<schemaVars, uiVars, ar, chatVars, medVars, observed, sessionVars,
                   journalVars, conv_clock>>

InitConv ==
    /\ cr = CrIdle
    /\ conversation_history = <<>>
    /\ conv_clock = 1
    /\ observed = <<"u1", "default">>
    /\ hist = <<>>
    /\ loaded = "not_loaded"

\* a save is one upsert statement, a clear one DELETE, a load one SELECT:
\* calls of concurrent requests are these statements in any order
NextConv ==
    \/ \E u \in Users, s \in AgentStates, k \in SessionKeys, db_ok \in BOOLEAN :
          save_state(u, s, k, db_ok)
    \/ \E u \in Users, s \in AgentStates, k \in SessionKeys, db_ok \in BOOLEAN :
          save_conversation_state(u, k, s, db_ok)
    \/ \E u \in Users, k \in SessionKeys, db_ok \in BOOLEAN : load_state(u, k, db_ok)
    \/ \E u \in Users, k \in SessionKeys, db_ok \in BOOLEAN :
          load_conversation_state(u, k, db_ok)
    \/ \E u \in Users, k \in SessionKeys, db_ok \in BOOLEAN : clear_state(u, k, db_ok)

\* ------------------------------------------------------------------ journal store
\* journal_entries policies: view / insert / update / delete own rows
journal_entries_policy(caller, row) == (~rls) \/ row.user_id = caller

\* journal_followups has FOR SELECT and FOR INSERT policies only: under RLS
\* no followup row is updatable
journal_followups_update_policy(caller, row) == ~rls

EntryIds == 1..Len(journal_entries)

Range(q) == {q[i] : i \in 1..Len(q)}

Min(a, b) == IF a <= b THEN a ELSE b

Abs(x) == IF x < 0 THEN -x ELSE x

\* the embedding the provider computes for a text
EmbeddingOf(c) == CASE c = "work" -> 1 [] c = "rest" -> 2 [] OTHER -> 3

\* generate_embedding: genai.embed_content raises when the provider fails
generate_embedding(c, provider_ok) ==
    IF provider_ok THEN [raised |-> FALSE, value |-> EmbeddingOf(c)]
    ELSE [raised |-> TRUE, value |-> NULL]

\* get_embedding: no embedding when the provider fails
get_embedding(c, provider_ok) == IF provider_ok THEN EmbeddingOf(c) ELSE NULL

\* embedding <=> query_embedding (cosine distance x100)
CosineDistance(a, b) == 100 - Cos100[Abs(a - b) + 1]

\* ORDER BY key LIMIT n: every ordering of ties the database may produce
OrderLimit(S, key, n) ==
    LET m == Min(n, Cardinality(S))
    IN  {q \in [1..m -> S] :
            /\ \A i, j \in 1..m : i < j => q[i] # q[j] /\ key[q[i]] <= key[q[j]]
            /\ \A x \in S \ {q[i] : i \in 1..m} : \A i \in 1..m : key[q[i]] <= key[x]}

\* the WHERE clause of a similarity search that admits similarity = threshold
match_rows_at_threshold(query_embedding, match_threshold, target_user_id) ==
    {i \in EntryIds :
        /\ journal_entries_policy(target_user_id, journal_entries[i])
        /\ journal_entries[i].user_id = target_user_id
        /\ journal_entries[i].is_archived = FALSE
        /\ journal_entries[i].embedding # NULL
        /\ 100 - CosineDistance(journal_entries[i].embedding, query_embedding) >= match_threshold}

\* the WHERE clause of a similarity search that ignores is_archived
match_rows_any_archived(query_embedding, match_threshold, target_user_id) ==
    {i \in EntryIds :
        /\ journal_entries_policy(target_user_id, journal_entries[i])
        /\ journal_entries[i].user_id = target_user_id
        /\ journal_entries[i].embedding # NULL
        /\ 100 - CosineDistance(journal_entries[i].embedding, query_embedding) > match_threshold}

\* match_journal_entries: the WHERE clause
match_rows(query_embedding, match_threshold, target_user_id) ==
    {i \in EntryIds :
        /\ journal_entries_policy(target_user_id, journal_entries[i])
        /\ journal_entries[i].user_id = target_user_id
        /\ journal_entries[i].is_archived = FALSE
        /\ journal_entries[i].embedding # NULL
        /\ 100 - CosineDistance(journal_entries[i].embedding, query_embedding) > match_threshold}

\* match_journal_entries: ORDER BY embedding <=> query_embedding LIMIT match_count
match_journal_entries(query_embedding, match_threshold, match_count, target_user_id) ==
    LET rows == match_rows(query_embedding, match_threshold, target_user_id)
        dist == [i \in rows |->
                    CosineDistance(journal_entries[i].embedding, query_embedding)]
    IN  OrderLimit(rows, dist, match_count)

\* the WHERE clause of a recent-entries query that skips entries without embedding
recent_rows_embedded(target_user_id) ==
    {i \in EntryIds :
        /\ journal_entries_policy(target_user_id, journal_entries[i])
        /\ journal_entries[i].user_id = target_user_id
        /\ journal_entries[i].embedding # NULL
        /\ journal_entries[i].is_archived = FALSE}

\* get_recent_journal_entries: the WHERE clause
recent_rows(target_user_id) ==
    {i \in EntryIds :
        /\ journal_entries_policy(target_user_id, journal_entries[i])
        /\ journal_entries[i].user_id = target_user_id
        /\ journal_entries[i].is_archived = FALSE}

\* get_recent_journal_entries: ORDER BY created_at DESC LIMIT entry_count
get_recent_journal_entries(target_user_id, entry_count) ==
    LET rows == recent_rows(target_user_id)
        age == [i \in rows |-> 0 - journal_entries[i].created_at]
    IN  OrderLimit(rows, age, entry_count)

NoResult == [op |-> "none", user_id |-> "u1", query |-> 1, threshold |-> 50,
             count |-> 1, ids |-> <<>>, content |-> "work", provider_ok |-> TRUE,
             rpc_ok |-> TRUE, raised |-> FALSE]

NewEntry(u, c, e) ==
    [user_id |-> u, content |-> c, embedding |-> e, is_archived |-> FALSE,
     created_at |-> Len(journal_entries) + 1]

\* ingest_journal: embedding = generate_embedding(content); insert
ingest_journal(u, c, provider_ok) ==
    /\ found = NoResult
    /\ LET emb == generate_embedding(c, provider_ok)
       IN  IF emb.raised
           THEN /\ found' = [NoResult EXCEPT !.op = "ingest", !.user_id = u, !.content = c,
                                             !.provider_ok = provider_ok]
                /\ UNCHANGED journal_entries
           ELSE /\ Len(journal_entries) < MaxEntries
                /\ journal_entries_policy(u, NewEntry(u, c, emb.value))
                /\ journal_entries' = Append(journal_entries, NewEntry(u, c, emb.value))
                /\ found' = [NoResult EXCEPT !.op = "ingest", !.user_id = u, !.content = c,
                                             !.provider_ok = provider_ok,
                                             !.ids = <<Len(journal_entries) + 1>>]
    /\ UNCHANGED <<schemaVars, uiVars, cr, ar, chatVars, medVars, sessionVars, convVars, journal_followups, pf>>

\* save_reflection, `if request.save_to_journal`: embedding = get_embedding(...);
\* insert the reflection as a journal entry
save_reflection_to_journal(u, c, provider_ok) ==
    /\ found = NoResult
    /\ Len(journal_entries) < MaxEntries
    /\ journal_entries_policy(u, NewEntry(u, c, get_embedding(c, provider_ok)))
    /\ journal_entries' = Append(journal_entries, NewEntry(u, c, get_embedding(c, provider_ok)))
    /\ found' = [NoResult EXCEPT !.op = "mirror", !.user_id = u, !.content = c,
                                 !.provider_ok = provider_ok,
                                 !.ids = <<Len(journal_entries) + 1>>]
    /\ UNCHANGED <<schemaVars, uiVars, cr, ar, chatVars, medVars, sessionVars, convVars, journal_followups, pf>>

\* supabase.rpc('match_journal_entries', ...)
find_similar(u, query_embedding, match_threshold, match_count) ==
    /\ found = NoResult
    /\ \E ids \in match_journal_entries(query_embedding, match_threshold, match_count, u) :
          found' = [NoResult EXCEPT !.op = "match", !.user_id = u,
                                    !.query = query_embedding,
                                    !.threshold = match_threshold,
                                    !.count = match_count, !.ids = ids]
    /\ UNCHANGED <<schemaVars, uiVars, cr, ar, chatVars, medVars, sessionVars, convVars, journal_entries, journal_followups, pf>>

\* search_memories: genai.embed_content(query), then the rpc with
\* match_threshold 0.7; neither call is guarded, so a failure of either raises.
\* rpc_ok is FALSE when the rpc fails (its 'user_id' argument matches the
\* function of supabase_schema.sql but not target_user_id of schema.sql)
search_memories(u, query, top_k, provider_ok, rpc_ok) ==
    /\ found = NoResult
    /\ LET emb  == generate_embedding(query, provider_ok)
           call == [NoResult EXCEPT !.op = "search", !.user_id = u, !.content = query,
                                    !.threshold = SearchThreshold, !.count = top_k,
                                    !.provider_ok = provider_ok, !.rpc_ok = rpc_ok]
       IN  IF emb.raised \/ ~rpc_ok
           THEN found' = [call EXCEPT !.raised = TRUE]
           ELSE \E ids \in match_journal_entries(emb.value, SearchThreshold, top_k, u) :
                   found' = [call EXCEPT !.query = emb.value, !.ids = ids]
    /\ UNCHANGED <<schemaVars, uiVars, cr, ar, chatVars, medVars, sessionVars, convVars, journal_entries, journal_followups, pf>>

\* get_recent_journal_entries(target_user_id, entry_count)
find_recent(u, entry_count) ==
    /\ found = NoResult
    /\ \E ids \in get_recent_journal_entries(u, entry_count) :
          found' = [NoResult EXCEPT !.op = "recent", !.user_id = u,
                                    !.count = entry_count, !.ids = ids]
    /\ UNCHANGED <<schemaVars, uiVars, cr, ar, chatVars, medVars, sessionVars, convVars, journal_entries, journal_followups, pf>>

\* UPDATE journal_entries SET is_archived = true
\* WHERE user_id = u AND created_at < cutoff AND is_archived = false
archive_old_entries(u, cutoff) ==
    /\ found = NoResult
    /\ journal_entries' =
          [i \in EntryIds |->
              IF /\ journal_entries_policy(u, journal_entries[i])
                 /\ journal_entries[i].user_id = u
                 /\ journal_entries[i].created_at < cutoff
                 /\ journal_entries[i].is_archived = FALSE
              THEN [journal_entries[i] EXCEPT !.is_archived = TRUE]
              ELSE journal_entries[i]]
    /\ found' = NoResult
    /\ UNCHANGED <<schemaVars, uiVars, cr, ar, chatVars, medVars, sessionVars, convVars, journal_followups, pf>>

\* the journal call in progress returns its result to the caller
journal_respond ==
    /\ found # NoResult
    /\ found' = NoResult
    /\ UNCHANGED <<schemaVars, uiVars, cr, ar, chatVars, medVars, sessionVars, convVars, journal_entries, journal_followups, pf>>

\* failed: the step of the request that raised; orphan_followup, orphan_entry:
\* the rows left by the caller's previous request for the same entry when its
\* link step failed and this request is the retry
PfIdle == [pc |-> "idle", user_id |-> "u1", entry_id |-> NULL,
           followup_id |-> NULL, new_id |-> NULL, result |-> "none",
           failed |-> "none", orphan_followup |-> NULL, orphan_entry |-> NULL]

\* the request that starts: a retry keeps track of what the failed one left
PfStart(u, e) ==
    IF pf.pc = "done" /\ pf.failed = "link" /\ pf.user_id = u /\ pf.entry_id = e
    THEN [PfIdle EXCEPT !.user_id = u, !.entry_id = e,
                        !.orphan_followup = pf.followup_id, !.orphan_entry = pf.new_id]
    ELSE [PfIdle EXCEPT !.user_id = u, !.entry_id = e]

\* a lookup of the original entry by id alone
select_original_entry_any_owner(u, e) ==
    {i \in EntryIds : i = e /\ journal_entries_policy(u, journal_entries[i])}

\* .select('*').eq('id', entry_id).eq('user_id', user_id)
select_original_entry(u, e) ==
    {i \in EntryIds : /\ i = e
                      /\ journal_entries[i].user_id = u
                      /\ journal_entries_policy(u, journal_entries[i])}

\* "Users can view own journal followups": the original entry is the caller's
journal_followups_select_policy(caller, row) ==
    (~rls) \/ (row.original_entry_id \in EntryIds
                 /\ journal_entries[row.original_entry_id].user_id = caller)

\* "Get journal entry with follow-ups": journal_entries je LEFT JOIN
\* journal_followups jf ON je.id = jf.original_entry_id WHERE je.user_id = u
entries_with_followups(u) ==
    [e \in {i \in EntryIds : /\ journal_entries[i].user_id = u
                              /\ journal_entries_policy(u, journal_entries[i])} |->
        {f \in 1..Len(journal_followups) :
            /\ journal_followups[f].original_entry_id = e
            /\ journal_followups_select_policy(u, journal_followups[f])}]

\* process_follow_up: select the original entry (.eq id .eq user_id .single());
\* no row raises, and `except Exception` turns every failure into a 500
pf_select_original(u, e) ==
    /\ pf.pc \in {"idle", "done"}
    /\ IF select_original_entry(u, e) # {}
       THEN pf' = [PfStart(u, e) EXCEPT !.pc = "insert_followup"]
       ELSE pf' = [PfStart(u, e) EXCEPT !.pc = "done", !.result = "error_500",
                                        !.failed = "select"]
    /\ UNCHANGED <<schemaVars, uiVars, cr, ar, chatVars, medVars, sessionVars, convVars, journal_entries, journal_followups, found>>

\* process_follow_up: insert the followup row (question, answer)
pf_insert_followup ==
    /\ pf.pc = "insert_followup"
    /\ Len(journal_followups) < MaxFollowups
    /\ journal_followups' = Append(journal_followups,
                                   [original_entry_id |-> pf.entry_id,
                                    synthesized_entry_id |-> NULL])
    /\ pf' = [pf EXCEPT !.pc = "insert_entry", !.followup_id = Len(journal_followups) + 1]
    /\ UNCHANGED <<schemaVars, uiVars, cr, ar, chatVars, medVars, sessionVars, convVars, journal_entries, found>>

\* process_follow_up: synthesize_entry, get_embedding, insert the new entry
pf_insert_entry(c, synth_ok, provider_ok) ==
    /\ pf.pc = "insert_entry"
    /\ IF ~synth_ok
       THEN /\ pf' = [pf EXCEPT !.pc = "done", !.result = "error_500",
                                 !.failed = "entry"]
            /\ UNCHANGED journal_entries
       ELSE /\ journal_entries' =
                  Append(journal_entries, NewEntry(pf.user_id, c, get_embedding(c, provider_ok)))
            /\ pf' = [pf EXCEPT !.pc = "link", !.new_id = Len(journal_entries) + 1]
    /\ UNCHANGED <<schemaVars, uiVars, cr, ar, chatVars, medVars, sessionVars, convVars, journal_followups, found>>

\* process_follow_up: update({'synthesized_entry_id': ...}).eq('id', followup id),
\* then return status success; a statement that raises is caught by the same
\* `except Exception` as every other failure
pf_link(db_ok) ==
    /\ pf.pc = "link"
    /\ IF db_ok
       THEN /\ journal_followups' =
                  [i \in 1..Len(journal_followups) |->
                      IF i = pf.followup_id
                         /\ journal_followups_update_policy(pf.user_id, journal_followups[i])
                      THEN [journal_followups[i] EXCEPT !.synthesized_entry_id = pf.new_id]
                      ELSE journal_followups[i]]
            /\ pf' = [pf EXCEPT !.pc = "done", !.result = "success"]
       ELSE /\ UNCHANGED journal_followups
            /\ pf' = [pf EXCEPT !.pc = "done", !.result = "error_500", !.failed = "link"]
    /\ UNCHANGED <<schemaVars, uiVars, cr, ar, chatVars, medVars, sessionVars, convVars, journal_entries, found>>

InitJournal ==
    /\ journal_entries = <<>>
    /\ journal_followups = <<>>
    /\ pf = PfIdle
    /\ found = NoResult

NextJournal ==
    \/ \E u \in Users, c \in Contents, provider_ok \in BOOLEAN : ingest_journal(u, c, provider_ok)
    \/ \E u \in Users, q \in Directions, t \in Thresholds, n \in Counts : find_similar(u, q, t, n)
    \/ \E u \in Users, n \in Counts : find_recent(u, n)
    \/ \E u \in Users, c \in Contents, n \in Counts, provider_ok \in BOOLEAN, rpc_ok \in BOOLEAN :
          search_memories(u, c, n, provider_ok, rpc_ok)
    \/ \E u \in Users, c \in Contents, provider_ok \in BOOLEAN :
          save_reflection_to_journal(u, c, provider_ok)
    \/ \E u \in Users, cutoff \in 1..(MaxEntries + 1) : archive_old_entries(u, cutoff)
    \/ journal_respond

\* the follow-up request among journal writes
NextFollowup ==
    \/ \E u \in Users, c \in Contents, provider_ok \in BOOLEAN : ingest_journal(u, c, provider_ok)
    \/ \E u \in Users, e \in 1..MaxEntries : pf_select_original(u, e)
    \/ pf_insert_followup
    \/ \E c \in Contents, synth_ok \in BOOLEAN, provider_ok \in BOOLEAN :
          pf_insert_entry(c, synth_ok, provider_ok)
    \/ \E db_ok \in BOOLEAN : pf_link(db_ok)
    \/ journal_respond

\* ---------------------------------------------------------- chat message store
\* "Users can insert own chat messages": the session of the row is the caller's
chat_messages_insert_policy(caller, row) ==
    (~rls) \/ (row.session_id \in SessionIds
                 /\ chat_sessions[row.session_id].user_id = caller)

\* "Users can view own chat messages"
chat_messages_select_policy(caller, row) ==
    (~rls) \/ (row.session_id \in SessionIds
                 /\ chat_sessions[row.session_id].user_id = caller)

MessageIds == 1..Len(chat_messages)

CmIdle == [pc |-> "idle", user_id |-> "u1", session_id |-> NULL, message |-> "hello",
           now |-> NULL, user_row |-> NULL, assistant_row |-> NULL, result |-> "none"]

\* a chat_message request between its first insert and its return
Appending(p) == cm[p].pc \in {"user_insert", "assistant_begin", "assistant_insert"}

\* the reply the agent gives to a message
AgentReply(msg) == IF msg = "hello" THEN "welcome" ELSE "farewell"

\* an insert that overwrites the session's latest message of the same role
insert_chat_message_latest(table, row) ==
    LET same == {i \in 1..Len(table) : /\ table[i].session_id = row.session_id
                                        /\ table[i].role = row.role}
    IN  IF same = {} THEN Append(table, row)
        ELSE [table EXCEPT ![CHOOSE i \in same : \A j \in same : j <= i] = row]

\* supabase.table('chat_messages').insert({...}): the row as committed
insert_chat_message(table, row) == Append(table, row)

\* save_chat_message(role='user'): the INSERT's transaction starts and reads
\* NOW(), the value of created_at
chat_user_begin(p, msg) ==
    /\ goc[p].pc = "done"
    /\ cm[p].pc \in {"idle", "done"}
    /\ Len(chat_messages) + 2 * Cardinality({q \in Procs : Appending(q)}) + 2 <= MaxMessages
    /\ cm' = [cm EXCEPT ![p] = [CmIdle EXCEPT !.pc = "user_insert",
                                              !.user_id = goc[p].user_id,
                                              !.session_id = goc[p].ret,
                                              !.message = msg,
                                              !.now = msg_clock]]
    /\ msg_clock' = msg_clock + 1
    /\ UNCHANGED <<schemaVars, uiVars, cr, ar, sessionVars, convVars, journalVars, medVars, chat_messages, listed>>

\* save_chat_message(role='user'): the INSERT commits and the call returns; a
\* row the policy rejects raises
chat_user_insert(p) ==
    /\ cm[p].pc = "user_insert"
    /\ LET row == [session_id |-> cm[p].session_id, role |-> "user",
                   content |-> cm[p].message, agent_persona |-> NULL,
                   created_at |-> cm[p].now]
       IN  IF chat_messages_insert_policy(cm[p].user_id, row)
           THEN /\ chat_messages' = insert_chat_message(chat_messages, row)
                /\ cm' = [cm EXCEPT ![p].pc = "assistant_begin", ![p].now = NULL,
                                    ![p].user_row = Len(chat_messages) + 1]
           ELSE /\ cm' = [cm EXCEPT ![p].pc = "done", ![p].now = NULL,
                                    ![p].result = "error"]
                /\ UNCHANGED chat_messages
    /\ UNCHANGED <<schemaVars, uiVars, cr, ar, sessionVars, convVars, journalVars, medVars, msg_clock, listed>>

\* save_chat_message(role='assistant'): transaction start
chat_assistant_begin(p) ==
    /\ cm[p].pc = "assistant_begin"
    /\ cm' = [cm EXCEPT ![p].pc = "assistant_insert", ![p].now = msg_clock]
    /\ msg_clock' = msg_clock + 1
    /\ UNCHANGED <<schemaVars, uiVars, cr, ar, sessionVars, convVars, journalVars, medVars, chat_messages, listed>>

\* save_chat_message(role='assistant'): commit, then the handler returns
chat_assistant_insert(p) ==
    /\ cm[p].pc = "assistant_insert"
    /\ LET row == [session_id |-> cm[p].session_id, role |-> "assistant",
                   content |-> AgentReply(cm[p].message), agent_persona |-> "mentor",
                   created_at |-> cm[p].now]
       IN  IF chat_messages_insert_policy(cm[p].user_id, row)
           THEN /\ chat_messages' = insert_chat_message(chat_messages, row)
                /\ cm' = [cm EXCEPT ![p].pc = "done", ![p].result = "ok", ![p].now = NULL,
                                    ![p].assistant_row = Len(chat_messages) + 1]
           ELSE /\ cm' = [cm EXCEPT ![p].pc = "done", ![p].now = NULL,
                                    ![p].result = "error"]
                /\ UNCHANGED chat_messages
    /\ UNCHANGED <<schemaVars, uiVars, cr, ar, sessionVars, convVars, journalVars, medVars, msg_clock, listed>>

NoHistory == [op |-> "none", user_id |-> "u1", session_id |-> NULL, ids |-> <<>>]

\* the chat_messages rows the history query joins to session sid
history_rows(caller, sid) ==
    {i \in MessageIds : /\ chat_messages[i].session_id = sid
                        /\ chat_messages_select_policy(caller, chat_messages[i])}

\* "Get chat history for a session": chat_sessions cs LEFT JOIN chat_messages cm
\* WHERE cs.user_id = caller AND cs.id = sid, json_agg(... ORDER BY cm.created_at);
\* a session without messages aggregates the one all-NULL row of the outer join
chat_history(caller, sid) ==
    IF ~(/\ sid \in SessionIds
         /\ chat_sessions[sid].user_id = caller
         /\ chat_sessions_select_policy(caller, chat_sessions[sid]))
    THEN {<<>>}
    ELSE IF history_rows(caller, sid) = {} THEN {<<NULL>>}
    ELSE LET rows == history_rows(caller, sid)
         IN  OrderLimit(rows, [i \in rows |-> chat_messages[i].created_at],
                        Cardinality(rows))

list_history(caller, sid) ==
    /\ listed = NoHistory
    /\ \E ids \in chat_history(caller, sid) :
          listed' = [op |-> "history", user_id |-> caller, session_id |-> sid, ids |-> ids]
    /\ UNCHANGED <<schemaVars, uiVars, cr, ar, sessionVars, convVars, journalVars, medVars,
                   chat_messages, msg_clock, cm>>

\* the history query returns its result to the caller
history_respond ==
    /\ listed # NoHistory
    /\ listed' = NoHistory
    /\ UNCHANGED <<schemaVars, uiVars, cr, ar, sessionVars, convVars, journalVars, medVars,
                   chat_messages, msg_clock, cm>>

InitChat ==
    /\ chat_messages = <<>>
    /\ msg_clock = 1
    /\ cm = [p \in Procs |-> CmIdle]
    /\ listed = NoHistory

\* chat_message: session lookup, then the two save_chat_message calls; other
\* requests read the history
NextChat ==
    \/ \E p \in Procs, u \in Users : ~Appending(p) /\ get_or_create_select(p, u)
    \/ \E p \in Procs : get_or_create_insert(p)
    \/ \E p \in Procs, msg \in Messages : chat_user_begin(p, msg)
    \/ \E p \in Procs : chat_user_insert(p)
    \/ \E p \in Procs : chat_assistant_begin(p)
    \/ \E p \in Procs : chat_assistant_insert(p)
    \/ \E caller \in Users, sid \in 1..MaxSessions : list_history(caller, sid)
    \/ history_respond

\* ------------------------------------------------------------- meditation store
\* meditation_sessions policies: view / insert / update own rows
meditation_sessions_policy(caller, row) == (~rls) \/ row.user_id = caller

\* "Users can insert own meditation reflections"
meditation_reflections_insert_policy(caller, row) ==
    (~rls) \/ (row.session_id \in 1..Len(meditation_sessions)
                 /\ meditation_sessions[row.session_id].user_id = caller)

MedSessionIds == 1..Len(meditation_sessions)

\* INSERT INTO meditation_sessions (user_id, duration, completed, ...)
create_meditation_session(u, duration, completed) ==
    /\ Len(meditation_sessions) < MaxMedSessions
    /\ meditation_sessions_policy(u, [user_id |-> u])
    /\ meditation_sessions' =
          Append(meditation_sessions,
                 [user_id |-> u, duration |-> duration, completed |-> completed,
                  created_at |-> Len(meditation_sessions) + 1, completed_at |-> NULL])
    /\ UNCHANGED <<schemaVars, uiVars, cr, ar, sessionVars, convVars, journalVars, chatVars,
                   meditation_reflections, med_clock, sr>>

\* .eq('user_id', u).eq('completed', False).order('created_at', desc=True).limit(1)
select_incomplete_session(u) ==
    LET rows == {i \in MedSessionIds :
                    /\ meditation_sessions_policy(u, meditation_sessions[i])
                    /\ meditation_sessions[i].user_id = u
                    /\ meditation_sessions[i].completed = FALSE}
    IN  {i \in rows : \A j \in rows : meditation_sessions[j].created_at
                                          <= meditation_sessions[i].created_at}

SrIdle == [pc |-> "idle", user_id |-> "u1", duration |-> 300, session_id |-> NULL,
           created |-> FALSE, result |-> "none"]

\* save_reflection: find the incomplete session of the user
sr_select(p, u, duration) ==
    /\ sr[p].pc \in {"idle", "done"}
    /\ LET res == select_incomplete_session(u)
       IN  sr' = [sr EXCEPT ![p] =
                    IF res = {}
                    THEN [SrIdle EXCEPT !.pc = "insert", !.user_id = u, !.duration = duration]
                    ELSE [SrIdle EXCEPT !.pc = "update", !.user_id = u, !.duration = duration,
                                        !.session_id = CHOOSE i \in res : TRUE]]
    /\ UNCHANGED <<schemaVars, uiVars, cr, ar, sessionVars, convVars, journalVars, chatVars,
                   meditation_sessions, meditation_reflections, med_clock>>

\* save_reflection, `if not session.data`: insert a session already completed
sr_insert(p) ==
    /\ sr[p].pc = "insert"
    /\ Len(meditation_sessions) < MaxMedSessions
    /\ meditation_sessions' =
          Append(meditation_sessions,
                 [user_id |-> sr[p].user_id, duration |-> sr[p].duration,
                  completed |-> TRUE, created_at |-> Len(meditation_sessions) + 1,
                  completed_at |-> med_clock])
    /\ med_clock' = med_clock + 1
    /\ sr' = [sr EXCEPT ![p].pc = "reflect", ![p].created = TRUE,
                        ![p].session_id = Len(meditation_sessions) + 1]
    /\ UNCHANGED <<schemaVars, uiVars, cr, ar, sessionVars, convVars, journalVars, chatVars, meditation_reflections>>

\* .update({'completed': True, 'completed_at': 'now()'}) of a session row
mark_completed(row, t) == [row EXCEPT !.completed = TRUE, !.completed_at = t]

\* save_reflection, else branch: mark the session found as completed
\* (.update(...).eq('id', session_id))
sr_update(p) ==
    /\ sr[p].pc = "update"
    /\ meditation_sessions' =
          [i \in MedSessionIds |->
              IF i = sr[p].session_id
                 /\ meditation_sessions_policy(sr[p].user_id, meditation_sessions[i])
              THEN mark_completed(meditation_sessions[i], med_clock)
              ELSE meditation_sessions[i]]
    /\ med_clock' = med_clock + 1
    /\ sr' = [sr EXCEPT ![p].pc = "reflect"]
    /\ UNCHANGED <<schemaVars, uiVars, cr, ar, sessionVars, convVars, journalVars, chatVars, meditation_reflections>>

\* save_reflection: insert the reflection row, then return saved
sr_insert_reflection(p) ==
    /\ sr[p].pc = "reflect"
    /\ Len(meditation_reflections) < MaxReflections
    /\ IF meditation_reflections_insert_policy(sr[p].user_id, [session_id |-> sr[p].session_id])
       THEN /\ meditation_reflections' =
                  Append(meditation_reflections, [session_id |-> sr[p].session_id])
            /\ sr' = [sr EXCEPT ![p].pc = "done", ![p].result = "saved"]
       ELSE /\ UNCHANGED meditation_reflections
            /\ sr' = [sr EXCEPT ![p].pc = "done", ![p].result = "error"]
    /\ UNCHANGED <<schemaVars, uiVars, cr, ar, sessionVars, convVars, journalVars, chatVars,
                   meditation_sessions, med_clock>>

ArIdle == [caller |-> "u1", session_id |-> NULL, result |-> "none"]

\* INSERT INTO meditation_reflections (session_id, ...) VALUES (sid, ...) by
\* caller: rejected by the insert policy under RLS, by the foreign key when
\* the table declares it, stored otherwise
add_reflection(caller, sid) ==
    /\ ar = ArIdle
    /\ Len(meditation_reflections) < MaxReflections
    /\ LET row == [session_id |-> sid]
       IN  IF ~meditation_reflections_insert_policy(caller, row)
           THEN /\ ar' = [caller |-> caller, session_id |-> sid, result |-> "rls_violation"]
                /\ UNCHANGED meditation_reflections
           ELSE IF reflections_fk /\ sid \notin MedSessionIds
           THEN /\ ar' = [caller |-> caller, session_id |-> sid,
                          result |-> "foreign_key_violation"]
                /\ UNCHANGED meditation_reflections
           ELSE /\ ar' = [caller |-> caller, session_id |-> sid, result |-> "saved"]
                /\ meditation_reflections' = Append(meditation_reflections, row)
    /\ UNCHANGED <<schemaVars, uiVars, cr, sessionVars, convVars, journalVars, chatVars,
                   meditation_sessions, med_clock, sr>>

\* the insert's outcome is returned to the caller
reflection_respond ==
    /\ ar # ArIdle
    /\ ar' = ArIdle
    /\ UNCHANGED <<schemaVars, uiVars, cr, sessionVars, convVars, journalVars, chatVars, medVars>>

InitMeditation ==
    /\ meditation_sessions = <<>>
    /\ meditation_reflections = <<>>
    /\ med_clock = 1
    /\ sr = [p \in Procs |-> SrIdle]
    /\ reflections_fk = TRUE
    /\ ar = ArIdle

NextMeditation ==
    \/ \E u \in Users, d \in Durations, completed \in BOOLEAN :
          create_meditation_session(u, d, completed)
    \/ \E p \in Procs, u \in Users, d \in Durations : sr_select(p, u, d)
    \/ \E p \in Procs : sr_insert(p)
    \/ \E p \in Procs : sr_update(p)
    \/ \E p \in Procs : sr_insert_reflection(p)

\* ------------------------------------------------------ zen meditation page

SecondsPerMinute == 60
StageCount == 5

\* two of the page's `durations`, in minutes
ZenDurations == {5, 10}

dbVars == <<schemaVars, cr, ar, sessionVars, convVars, journalVars, chatVars, medVars>>

\* eventSourceRef.current = null
NullRef == [set |-> FALSE, stage |-> 0, open |-> FALSE]

\* the values the effects' dependency arrays are compared on
ZenDeps(z) == [isPlaying |-> z.isPlaying, duration |-> z.duration,
               timeRemaining |-> z.timeRemaining, currentStage |-> z.currentStage,
               stagesLoaded |-> z.stagesLoaded]

\* a render was committed whose effects have not run yet
EffectsPending(z) == z.ran # ZenDeps(z)

\* Math.floor((duration * 60 - timeRemaining) / (duration * 60 / 5))
stageIndex(z) ==
    (z.duration * SecondsPerMinute - z.timeRemaining)
        \div ((z.duration * SecondsPerMinute) \div StageCount)

\* a variant of startStreamingStage that leaves the existing stream open
startStreamingStage_no_close(z, idx) ==
    [z EXCEPT !.orphans = IF z.ref.open THEN @ + 1 ELSE @,
              !.ref = [set |-> TRUE, stage |-> idx, open |-> TRUE],
              !.hasLine = FALSE,
              !.streamed = @ \cup {idx}]

\* startStreamingStage: close the existing stream, clear the captions, open
\* an EventSource for the stage and keep it in eventSourceRef
startStreamingStage(z, idx) ==
    [z EXCEPT !.ref = [set |-> TRUE, stage |-> idx, open |-> TRUE],
              !.hasLine = FALSE,
              !.streamed = @ \cup {idx}]

\* the effects of the committed render, in declaration order, each reading the
\* render's values and run only when one of its dependencies changed
RunEffects(z) ==
    LET changed(f) == z.ran[f] # ZenDeps(z)[f]
        total    == z.duration * SecondsPerMinute
        \* [duration]: setTimeRemaining(duration * 60)
        z1 == IF changed("duration") THEN [z EXCEPT !.timeRemaining = total] ELSE z
        \* [isPlaying, timeRemaining]: clear the interval, then arm a new one
        \* or stop at 0
        z2 == IF changed("isPlaying") \/ changed("timeRemaining")
              THEN [z1 EXCEPT !.interval = (z.isPlaying /\ z.timeRemaining > 0),
                              !.isPlaying = IF ~(z.isPlaying /\ z.timeRemaining > 0)
                                               /\ z.timeRemaining = 0
                                            THEN FALSE ELSE @]
              ELSE z1
        \* [isPlaying, timeRemaining, duration, stages, currentStage]
        idx == stageIndex(z)
        z3 == IF z.isPlaying /\ z.stagesLoaded /\ idx # z.currentStage /\ idx < StageCount
              THEN startStreamingStage([z2 EXCEPT !.currentStage = idx], idx)
              ELSE z2
        \* [isPlaying]: close the stream when not playing
        z4 == IF changed("isPlaying") /\ ~z.isPlaying /\ z3.ref.set
              THEN [z3 EXCEPT !.ref = NullRef]
              ELSE z3
    IN  [z4 EXCEPT !.ran = ZenDeps(z)]

\* the page after mount
ZenInit == [isPlaying |-> FALSE, duration |-> 10, timeRemaining |-> 600,
            currentStage |-> 0, stagesLoaded |-> FALSE, hasLine |-> FALSE,
            ref |-> NullRef, orphans |-> 0, interval |-> FALSE, streamed |-> {},
            ran |-> [isPlaying |-> FALSE, duration |-> 10, timeRemaining |-> 600,
                     currentStage |-> 0, stagesLoaded |-> FALSE]]

\* the passive effects of the last render run
zen_run_effects ==
    /\ EffectsPending(zen)
    /\ zen' = RunEffects(zen)
    /\ UNCHANGED <<dbVars, term, council, counsel>>

\* the interval fires: setTimeRemaining((prev) => prev - 1); effects still
\* pending are flushed before the update is rendered
zen_tick ==
    /\ zen.interval
    /\ LET z == IF EffectsPending(zen) THEN RunEffects(zen) ELSE zen
       IN  zen' = [z EXCEPT !.timeRemaining = @ - 1]
    /\ UNCHANGED <<dbVars, term, council, counsel>>

\* fetch of /api/meditation/stages resolves: setStages(data.stages)
zen_stages_fetched ==
    /\ ~EffectsPending(zen)
    /\ ~zen.stagesLoaded
    /\ zen' = [zen EXCEPT !.stagesLoaded = TRUE]
    /\ UNCHANGED <<dbVars, term, council, counsel>>

\* togglePlay, on the values of the render the button belongs to
togglePlay(z) ==
    LET z1 == IF z.timeRemaining = 0
              THEN [z EXCEPT !.timeRemaining = z.duration * SecondsPerMinute,
                             !.currentStage = 0, !.hasLine = FALSE]
              ELSE z
        z2 == [z1 EXCEPT !.isPlaying = ~z.isPlaying,
                         !.streamed = IF z.isPlaying THEN @ ELSE {}]
    IN  IF ~z.isPlaying /\ ~z.hasLine THEN startStreamingStage(z2, 0) ELSE z2

zen_toggle_play ==
    /\ ~EffectsPending(zen)
    /\ zen' = togglePlay(zen)
    /\ UNCHANGED <<dbVars, term, council, counsel>>

\* a duration button, rendered while not playing: setDuration(d)
zen_set_duration(d) ==
    /\ ~EffectsPending(zen)
    /\ ~zen.isPlaying
    /\ d # zen.duration
    /\ zen' = [zen EXCEPT !.duration = d]
    /\ UNCHANGED <<dbVars, term, council, counsel>>

\* eventSource.onmessage with a line (or an error notice): setCurrentLine
zen_stream_line ==
    /\ ~EffectsPending(zen)
    /\ zen.ref.open
    /\ ~zen.hasLine
    /\ zen' = [zen EXCEPT !.hasLine = TRUE]
    /\ UNCHANGED <<dbVars, term, council, counsel>>

\* eventSource.onerror: eventSource.close()
zen_stream_error ==
    /\ ~EffectsPending(zen)
    /\ zen.ref.open
    /\ zen' = [zen EXCEPT !.ref.open = FALSE]
    /\ UNCHANGED <<dbVars, term, council, counsel>>

InitZen == zen = ZenInit

NextZen ==
    \/ zen_run_effects
    \/ zen_tick
    \/ zen_stages_fetched
    \/ zen_toggle_play
    \/ \E d \in ZenDurations : zen_set_duration(d)
    \/ zen_stream_line
    \/ zen_stream_error

\* ------------------------------------------------- terminal meditation page

TermInit == [isSessionActive |-> FALSE, ws |-> NULL, sockets |-> <<>>]

\* the WebSockets that have not closed yet
NotClosed(t) == {i \in 1..Len(t.sockets) : t.sockets[i] # "closed"}

\* START SESSION, rendered while !isSessionActive: startSession
startSession ==
    /\ ~term.isSessionActive
    /\ Len(term.sockets) < MaxSockets
    /\ term' = [isSessionActive |-> TRUE,
                ws |-> Len(term.sockets) + 1,
                sockets |-> Append(term.sockets, "connecting")]
    /\ UNCHANGED <<dbVars, zen, council, counsel>>

\* END SESSION, rendered while isSessionActive: stopSession; ws.close() starts
\* the closing handshake, onclose fires when it is over
stopSession ==
    /\ term.isSessionActive
    /\ term' = [isSessionActive |-> FALSE,
                ws |-> NULL,
                sockets |-> IF term.ws # NULL /\ term.sockets[term.ws] # "closed"
                            THEN [term.sockets EXCEPT ![term.ws] = "closing"]
                            ELSE term.sockets]
    /\ UNCHANGED <<dbVars, zen, council, counsel>>

\* websocket.onopen: a transcript line only
ws_onopen(i) ==
    /\ term.sockets[i] = "connecting"
    /\ term' = [term EXCEPT !.sockets[i] = "open"]
    /\ UNCHANGED <<dbVars, zen, council, counsel>>

\* websocket.onclose, after a close() of the page, a close by the server or a
\* failed connection (onerror adds a transcript line first):
\* setIsSessionActive(false)
ws_onclose(i) ==
    /\ term.sockets[i] # "closed"
    /\ term' = [term EXCEPT !.sockets[i] = "closed", !.isSessionActive = FALSE]
    /\ UNCHANGED <<dbVars, zen, council, counsel>>

InitTerm == term = TermInit

NextTerm ==
    \/ startSession
    \/ stopSession
    \/ \E i \in 1..Len(term.sockets) : ws_onopen(i)
    \/ \E i \in 1..Len(term.sockets) : ws_onclose(i)

\* ------------------------------------------------------------ Council page

\* the characters of a typed text: a blank and a letter
Chars == {" ", "x"}

Texts == UNION {[1..n -> Chars] : n \in 0..MaxText}

RECURSIVE trimStart(_)
trimStart(t) == IF t = <<>> \/ Head(t) # " " THEN t ELSE trimStart(Tail(t))

RECURSIVE trimEnd(_)
trimEnd(t) == IF t = <<>> \/ t[Len(t)] # " " THEN t ELSE trimEnd(SubSeq(t, 1, Len(t) - 1))

\* String.prototype.trim
trim(t) == trimEnd(trimStart(t))

\* a variant of handleSubmit that sends the text as typed
sent_text_untrimmed(message) == message

\* handleSubmit: onSend(message.trim())
sent_text(message) == trim(message)

CouncilInit == [messages |-> <<[role |-> "assistant", kind |-> "welcome", content |-> <<>>]>>,
                isLoading |-> FALSE, message |-> <<>>, inflight |-> FALSE,
                typed |-> <<>>]

\* onChange of the input, which is disabled while isLoading
council_type(t) ==
    /\ ~council.isLoading
    /\ t # council.message
    /\ council' = [council EXCEPT !.message = t]
    /\ UNCHANGED <<dbVars, zen, term, counsel>>

\* handleSubmit, then sendMessage up to its fetch: the user message is
\* appended and isLoading set
council_submit ==
    /\ trim(council.message) # <<>> /\ ~council.isLoading
    /\ Len(council.messages) + 2 <= MaxPageMessages
    /\ council' = [council EXCEPT
                      !.messages = Append(@, [role |-> "user", kind |-> "text",
                                              content |-> sent_text(council.message)]),
                      !.isLoading = TRUE,
                      !.message = <<>>,
                      !.inflight = TRUE,
                      !.typed = council.message]
    /\ UNCHANGED <<dbVars, zen, term, counsel>>

\* sendMessage after its fetch: the reply, or the error notice of the catch
\* block; finally setIsLoading(false)
council_response(ok) ==
    /\ council.inflight
    /\ council' = [council EXCEPT
                      !.messages = Append(@, [role |-> "assistant",
                                              kind |-> IF ok THEN "reply" ELSE "error",
                                              content |-> <<>>]),
                      !.isLoading = FALSE,
                      !.inflight = FALSE]
    /\ UNCHANGED <<dbVars, zen, term, counsel>>

InitCouncil == council = CouncilInit

NextCouncil ==
    \/ \E t \in Texts : council_type(t)
    \/ council_submit
    \/ \E ok \in BOOLEAN : council_response(ok)

\* ------------------------------------------------------------ Counsel page

\* a variant of handleSend that gives the reply the id of the user message
aiMessageId_same(len) == len + 1

\* id: messages.length + 2, on the messages of the render handleSend ran in
aiMessageId(len) == len + 2

CounselInit == [messages |-> <<[id |-> 1, type |-> "ai", text |-> <<>>]>>,
                input |-> <<>>, isLoading |-> FALSE, requests |-> <<>>]

\* onChange of the input, which is disabled while isLoading
counsel_type(t) ==
    /\ ~counsel.isLoading
    /\ t # counsel.input
    /\ counsel' = [counsel EXCEPT !.input = t]
    /\ UNCHANGED <<dbVars, zen, term, council>>

\* handleSend up to its fetch
handleSend ==
    /\ ~(trim(counsel.input) = <<>> \/ counsel.isLoading)
    /\ Len(counsel.messages) + 2 <= MaxPageMessages
    /\ counsel' = [counsel EXCEPT
                      !.messages = Append(@, [id |-> Len(counsel.messages) + 1,
                                              type |-> "user", text |-> counsel.input]),
                      !.input = <<>>,
                      !.isLoading = TRUE,
                      !.requests = Append(@, Len(counsel.messages))]
    /\ UNCHANGED <<dbVars, zen, term, council>>

\* handleSend after its fetch: the reply or the apology, then
\* setIsLoading(false)
counsel_response(k, ok) ==
    /\ k \in 1..Len(counsel.requests)
    /\ counsel' = [counsel EXCEPT
                      !.messages = Append(@, [id |-> aiMessageId(counsel.requests[k]),
                                              type |-> "ai", text |-> <<>>]),
                      !.isLoading = FALSE,
                      !.requests = SubSeq(@, 1, k - 1) \o SubSeq(@, k + 1, Len(@))]
    /\ UNCHANGED <<dbVars, zen, term, council>>

InitCounsel == counsel = CounselInit

NextCounsel ==
    \/ \E t \in Texts : counsel_type(t)
    \/ handleSend
    \/ \E k \in 1..Len(counsel.requests), ok \in BOOLEAN : counsel_response(k, ok)

InitUi == InitZen /\ InitTerm /\ InitCouncil /\ InitCounsel

InitSession ==
    /\ chat_sessions = <<>>
    /\ session_clock = 1
    /\ goc = [p \in Procs |-> GocIdle]
    /\ end_calls = <<>>
    /\ after_first_end = <<>>

vars == <<schemaVars, uiVars, cr, ar, sessionVars, convVars, journalVars, chatVars, medVars>>

Init ==
    /\ rls \in BOOLEAN
    /\ InitSession
    /\ InitConv
    /\ InitJournal
    /\ InitChat
    /\ InitMeditation
    /\ InitUi

\* the conversation-store observers may follow any (owner, key)
InitObserved ==
    /\ rls \in BOOLEAN
    /\ InitSession
    /\ InitJournal
    /\ InitChat
    /\ InitMeditation
    /\ InitUi
    /\ cr = CrIdle
    /\ conversation_history = <<>>
    /\ conv_clock = 1
    /\ observed \in StoreKeys
    /\ hist = <<>>
    /\ loaded = "not_loaded"

SpecConv == InitObserved /\ [][NextConv]_vars

SpecJournal == Init /\ [][NextJournal]_vars

SpecFollowup == Init /\ [][NextFollowup]_vars

NextSession ==
    \/ \E p \in Procs, u \in Users : get_or_create_select(p, u)
    \/ \E p \in Procs : get_or_create_insert(p)
    \/ \E caller \in Users, sid \in SessionIds : end_session(caller, sid)

SpecSession == Init /\ [][NextSession]_vars

\* Non-overlapping calls: a request starts only when no other is in progress
NoCallInFlight == \A q \in Procs : ~InFlight(q)

NextSessionSeq ==
    \/ \E p \in Procs, u \in Users : NoCallInFlight /\ get_or_create_select(p, u)
    \/ \E p \in Procs : get_or_create_insert(p)
    \/ \E caller \in Users, sid \in SessionIds : NoCallInFlight /\ end_session(caller, sid)

SpecSessionSeq == Init /\ [][NextSessionSeq]_vars

SpecChat == Init /\ [][NextChat]_vars

SpecMeditation == Init /\ [][NextMeditation]_vars

\* either schema variant: the simplified one has neither foreign keys nor RLS
InitReflection ==
    /\ rls \in BOOLEAN
    /\ reflections_fk \in BOOLEAN
    /\ ~reflections_fk => ~rls
    /\ InitSession
    /\ InitConv
    /\ InitJournal
    /\ InitChat
    /\ meditation_sessions = <<>>
    /\ meditation_reflections = <<>>
    /\ med_clock = 1
    /\ sr = [p \in Procs |-> SrIdle]
    /\ ar = ArIdle
    /\ InitUi

NextReflection ==
    \/ \E u \in Users, d \in Durations, completed \in BOOLEAN :
          create_meditation_session(u, d, completed)
    \/ \E caller \in Users, sid \in 1..MaxMedSessions : add_reflection(caller, sid)
    \/ reflection_respond

SpecReflection == InitReflection /\ [][NextReflection]_vars

\* chat requests and resets of the agent, one at a time
NextChatState ==
    \/ \E u \in Users, db_ok \in BOOLEAN : cr_load(u, db_ok)
    \/ \E db_ok \in BOOLEAN : cr_save(db_ok)
    \/ \E u \in Users, db_ok \in BOOLEAN : reset_conversation(u, db_ok)

SpecChatState == Init /\ [][NextChatState]_vars

\* the pages touch no table: the stores stay as Init leaves them
InitPage == Init /\ rls

SpecZen == InitPage /\ [][NextZen]_vars

SpecTerm == InitPage /\ [][NextTerm]_vars

SpecCouncil == InitPage /\ [][NextCouncil]_vars

SpecCounsel == InitPage /\ [][NextCounsel]_vars

\* the interval fires while it is armed, and committed effects do run
SpecZenFair == SpecZen /\ WF_vars(zen_tick) /\ WF_vars(zen_run_effects)

\* ---- the read operations over stored tables
\* the sequences of length n over a set of rows
Tables(Rows, n) == [1..n -> Rows]

\* journal_entries as n inserts leave it: created_at in insertion order, the
\* embedding the provider's or none, any entry possibly archived since. No
\* read returns an archived entry whatever it holds, and no similarity search
\* an entry without embedding whatever its content: one of each stands for all
JournalTables(n) ==
    {[i \in 1..n |-> [user_id |-> t[i].user_id, content |-> t[i].content,
                      embedding |-> IF t[i].embedded THEN EmbeddingOf(t[i].content) ELSE NULL,
                      is_archived |-> t[i].is_archived, created_at |-> i]] :
        t \in Tables({r \in [user_id : Users, content : Contents,
                              embedded : BOOLEAN, is_archived : BOOLEAN] :
                          (r.is_archived \/ ~r.embedded) =>
                              r.content = "work" /\ r.is_archived # r.embedded}, n)}

\* journal_followups not linked yet, each on a stored entry
FollowupTables(n, entries) ==
    Tables([original_entry_id : 1..entries, synthesized_entry_id : {NULL}], n)

\* conversation_history as n inserts leave it
ConvTables(n) ==
    {[i \in 1..n |-> [user_id |-> t[i].user_id, session_key |-> t[i].session_key,
                      agent_state |-> t[i].agent_state, updated_at |-> i]] :
        t \in Tables([user_id : Users, session_key : SessionKeys,
                      agent_state : AgentStates], n)}

\* chat_sessions as n inserts leave it, some of them ended since, in id order
SessionTables(n) ==
    {[i \in 1..n |-> [user_id |-> t[i].user_id, started_at |-> i,
                      ended_at |-> IF t[i].ended
                                   THEN Cardinality({j \in 1..i : t[j].ended})
                                   ELSE NULL]] :
        t \in Tables([user_id : Users, ended : BOOLEAN], n)}

\* chat_messages as n inserts into stored sessions leave it: every reply
\* after the user message it answers
MessageTables(n, sessions) ==
    {[i \in 1..n |-> [session_id |-> t[i].session_id, role |-> t[i].role,
                      content |-> IF t[i].role = "user" THEN "hello" ELSE AgentReply("hello"),
                      agent_persona |-> IF t[i].role = "user" THEN NULL ELSE "mentor",
                      created_at |-> i]] :
        t \in {x \in Tables([session_id : 1..sessions, role : {"user", "assistant"}], n) :
                  \A i \in 1..n : x[i].role = "assistant" =>
                      Cardinality({j \in 1..i : x[j].session_id = x[i].session_id
                                                /\ x[j].role = "assistant"})
                        <= Cardinality({j \in 1..i : x[j].session_id = x[i].session_id
                                                   /\ x[j].role = "user"})}}

\* a database holding at most MaxRows rows in all, and no request in progress
InitIsolation ==
    /\ rls \in BOOLEAN
    /\ cr = CrIdle
    /\ \E nj, nf, nc, ns, nm \in 0..MaxRows :
          /\ nj + nf + nc + ns + nm <= MaxRows
          /\ journal_entries \in JournalTables(nj)
          /\ journal_followups \in FollowupTables(nf, nj)
          /\ conversation_history \in ConvTables(nc)
          /\ conv_clock = nc + 1
          /\ chat_sessions \in SessionTables(ns)
          /\ chat_messages \in MessageTables(nm, ns)
          /\ msg_clock = nm + 1
    /\ session_clock = 1 + Cardinality({i \in SessionIds : chat_sessions[i].ended_at # NULL})
    /\ end_calls = [i \in SessionIds |-> IF chat_sessions[i].ended_at # NULL THEN 1 ELSE 0]
    /\ after_first_end = [i \in SessionIds |-> chat_sessions[i].ended_at]
    /\ goc = [p \in Procs |-> GocIdle]
    /\ observed = <<"u1", "default">>
    /\ hist = <<>>
    /\ loaded = "not_loaded"
    /\ pf = PfIdle
    /\ found = NoResult
    /\ cm = [p \in Procs |-> CmIdle]
    /\ listed = NoHistory
    /\ InitMeditation
    /\ InitUi

\* no request has read yet, or the last one has returned
NoReadYet ==
    /\ \A p \in Procs : goc[p] = GocIdle
    /\ pf = PfIdle
    /\ loaded = "not_loaded"
    /\ found = NoResult
    /\ listed = NoHistory

\* one read request on the stored tables
NextIsolation ==
    \/ \E p \in Procs, u \in Users : NoReadYet /\ get_or_create_select(p, u)
    \/ \E p \in Procs : get_or_create_insert(p)
    \/ \E caller \in Users, sid \in 1..MaxSessions : NoReadYet /\ list_history(caller, sid)
    \/ history_respond
    \/ \E u \in Users, k \in SessionKeys : NoReadYet /\ load_state(u, k, TRUE)
    \/ \E u \in Users, k \in SessionKeys : NoReadYet /\ load_conversation_state(u, k, TRUE)
    \/ \E u \in Users, q \in Directions, t \in Thresholds, n \in Counts :
          NoReadYet /\ find_similar(u, q, t, n)
    \/ \E u \in Users, n \in Counts : NoReadYet /\ find_recent(u, n)
    \/ journal_respond
    \/ \E u \in Users, e \in 1..MaxEntries : NoReadYet /\ pf_select_original(u, e)

SpecIsolation == InitIsolation /\ [][NextIsolation]_vars

\* all stores together
Next == NextSession \/ NextConv \/ NextJournal \/ NextFollowup \/ NextChat \/ NextMeditation
        \/ NextReflection \/ NextZen \/ NextChatState
        \/ NextTerm \/ NextCouncil \/ NextCounsel

Spec == Init /\ [][Next]_vars

\* ---------------------------------------------------------------- session claims

\* C1: two get_or_create_chat_session calls for one owner that overlap, both
\* starting with no open session, leave exactly one open session for the
\* owner and return the same session id (as long as neither returned
\* session has been ended since).
C1_ConcurrentGetOrCreateOneSession ==
    \A p \in Procs, q \in Procs :
        (/\ p # q
         /\ goc[p].pc = "done" /\ goc[q].pc = "done"
         /\ goc[p].user_id = goc[q].user_id
         /\ goc[p].raced /\ goc[q].raced
         /\ goc[p].created /\ goc[q].created
         /\ chat_sessions[goc[p].ret].ended_at = NULL
         /\ chat_sessions[goc[q].ret].ended_at = NULL)
        => (/\ goc[p].ret = goc[q].ret
            /\ Cardinality(OpenSessions(goc[p].user_id)) = 1)

\* C7: a second end-session statement on a session leaves its ended_at as
\* the first one set it.
C7_EndSessionIdempotent ==
    \A sid \in SessionIds :
        end_calls[sid] >= 2 => chat_sessions[sid].ended_at = after_first_end[sid]

\* C9: with non-overlapping calls every owner has at most one open session;
\* get_or_create_chat_session returns the open session when there is one and
\* inserts only when there is none; an ended session never becomes open
\* again and is never returned.
C9_AtMostOneOpen == \A u \in Users : Cardinality(OpenSessions(u)) <= 1

C9_Step ==
    /\ \A sid \in SessionIds :
          chat_sessions[sid].ended_at # NULL => chat_sessions'[sid].ended_at # NULL
    /\ \A p \in Procs :
          (goc'[p] # goc[p] /\ goc'[p].pc = "done") =>
             LET u == goc'[p].user_id
                 r == goc'[p].ret
             IN  /\ r \in 1..Len(chat_sessions')
                 /\ chat_sessions'[r].user_id = u
                 /\ chat_sessions'[r].ended_at = NULL
                 /\ goc[p].pc # "insert" =>
                        /\ r \in OpenSessions(u)
                        /\ chat_sessions' = chat_sessions
                 /\ goc[p].pc = "insert" =>
                        /\ OpenSessions(u) = {}
                        /\ r = Len(chat_sessions) + 1
    /\ \A p \in Procs :
          (goc'[p] # goc[p] /\ goc'[p].pc = "insert") => OpenSessions(goc'[p].user_id) = {}

C9_SequentialSessionInvariant == []C9_AtMostOneOpen /\ [][C9_Step]_vars

\* a session was created for an owner after that owner's earlier session ended
C9_Witness ==
    \E p \in Procs :
        /\ goc[p].pc = "done" /\ goc[p].created /\ goc[p].ret = 2
        /\ chat_sessions[1].user_id = goc[p].user_id
        /\ chat_sessions[1].ended_at # NULL
        /\ chat_sessions[2].ended_at = NULL

\* ----------------------------------------------------------------- owner isolation

\* the rows of owner a, by id: its entries, the followups of its entries, its
\* conversation states, its chat sessions and the messages of its sessions
OwnedBy(a) ==
    [entries   |-> [i \in {j \in EntryIds : journal_entries[j].user_id = a} |->
                       journal_entries[i]],
     followups |-> [f \in {g \in 1..Len(journal_followups) :
                             journal_entries[journal_followups[g].original_entry_id].user_id = a} |->
                       journal_followups[f]],
     states    |-> SelectSeq(conversation_history, LAMBDA row : row.user_id = a),
     sessions  |-> [i \in {j \in SessionIds : chat_sessions[j].user_id = a} |->
                       chat_sessions[i]],
     messages  |-> [i \in {j \in MessageIds :
                             chat_sessions[chat_messages[j].session_id].user_id = a} |->
                       chat_messages[i]]]

\* what the read operations return to owner a, for every argument
ReadsOf(a) ==
    [similar   |-> [q \in Directions, t \in Thresholds, n \in Counts |->
                       match_journal_entries(q, t, n, a)],
     recent    |-> [n \in Counts |-> get_recent_journal_entries(a, n)],
     state     |-> [k \in SessionKeys |-> load_state_result(a, k)],
     single    |-> [k \in SessionKeys |-> load_conversation_state_result(a, k)],
     history   |-> [sid \in 1..MaxSessions |-> chat_history(a, sid)],
     open      |-> select_open_session(a),
     original  |-> [e \in 1..MaxEntries |-> select_original_entry(a, e)],
     followups |-> entries_with_followups(a)]

\* the same results computed from the rows of the owner alone
ReadsFromOwn(own) ==
    LET E        == own.entries
        live     == {i \in DOMAIN E : ~E[i].is_archived}
        sim(i, q) == Cos100[Abs(E[i].embedding - q) + 1]
        near(q, t) == {i \in live : E[i].embedding # NULL /\ sim(i, q) > t}
        keyed(k) == {j \in 1..Len(own.states) : own.states[j].session_key = k}
        msgs(sid) == {i \in DOMAIN own.messages : own.messages[i].session_id = sid}
        opened   == {i \in DOMAIN own.sessions : own.sessions[i].ended_at = NULL}
    IN  [similar   |-> [q \in Directions, t \in Thresholds, n \in Counts |->
                           OrderLimit(near(q, t), [i \in near(q, t) |-> 0 - sim(i, q)], n)],
         recent    |-> [n \in Counts |->
                           OrderLimit(live, [i \in live |-> 0 - E[i].created_at], n)],
         state     |-> [k \in SessionKeys |->
                           IF keyed(k) = {} THEN "absent"
                           ELSE own.states[CHOOSE j \in keyed(k) : \A l \in keyed(k) :
                                    own.states[l].updated_at <= own.states[j].updated_at].agent_state],
         single    |-> [k \in SessionKeys |->
                           IF Cardinality(keyed(k)) = 1
                           THEN own.states[CHOOSE j \in keyed(k) : TRUE].agent_state
                           ELSE "raised"],
         history   |-> [sid \in 1..MaxSessions |->
                           IF sid \notin DOMAIN own.sessions THEN {<<>>}
                           ELSE IF msgs(sid) = {} THEN {<<NULL>>}
                           ELSE OrderLimit(msgs(sid),
                                           [i \in msgs(sid) |-> own.messages[i].created_at],
                                           Cardinality(msgs(sid)))],
         open      |-> {i \in opened : \A j \in opened :
                           own.sessions[j].started_at <= own.sessions[i].started_at},
         original  |-> [e \in 1..MaxEntries |-> {e} \cap DOMAIN E],
         followups |-> [e \in DOMAIN E |->
                           {f \in DOMAIN own.followups :
                               own.followups[f].original_entry_id = e}]]

\* C19: what every read operation returns to an owner is determined by the
\* rows of that owner alone, so it holds no row of another owner and does
\* not depend on another owner's data.
C19_OwnerIsolation ==
    \A a \in Users : ReadsOf(a) = ReadsFromOwn(OwnedBy(a))

\* an owner asked for its most recent entry while another owner holds a
\* newer one, and got its own
C19_Witness ==
    /\ found.op = "recent" /\ found.ids # <<>>
    /\ \E i \in EntryIds : /\ journal_entries[i].user_id # found.user_id
                            /\ i > found.ids[1]
                            /\ ~journal_entries[i].is_archived

\* ------------------------------------------------------------ chat message claims

\* C14: an append adds exactly one message, to the session it was called
\* for, and no step changes or removes a message already stored.
C14_Step ==
    /\ Len(chat_messages') \in {Len(chat_messages), Len(chat_messages) + 1}
    /\ \A i \in MessageIds : chat_messages'[i] = chat_messages[i]
    /\ \A p \in Procs :
          (cm[p].pc \in {"user_insert", "assistant_insert"} /\ cm'[p] # cm[p]
           /\ cm'[p].result # "error")
          => /\ Len(chat_messages') = Len(chat_messages) + 1
             /\ chat_messages'[Len(chat_messages')].session_id = cm[p].session_id
             /\ chat_messages'[Len(chat_messages')].role =
                    (IF cm[p].pc = "user_insert" THEN "user" ELSE "assistant")

C14_AppendNeverMutates == [][C14_Step]_vars

\* a second request has appended its reply to a session that already held
\* the two messages of an earlier request
C14_Witness ==
    \E p \in Procs :
        /\ cm[p].pc = "done" /\ cm[p].assistant_row = 4
        /\ \A i \in MessageIds : chat_messages[i].session_id = cm[p].session_id

\* C15: the history of a session lists its messages in the order in which
\* their appends completed (the order of the row ids), and the user message
\* of a request before the reply of that request.
C15_HistoryInCompletionOrder ==
    listed.op = "history" =>
        /\ \A k, l \in 1..Len(listed.ids) :
              (k < l /\ listed.ids[k] # NULL /\ listed.ids[l] # NULL)
                  => listed.ids[k] < listed.ids[l]
        /\ \A p \in Procs : \A k, l \in 1..Len(listed.ids) :
              (/\ cm[p].user_row # NULL /\ listed.ids[k] = cm[p].user_row
               /\ cm[p].assistant_row # NULL /\ listed.ids[l] = cm[p].assistant_row)
                  => k < l

\* ------------------------------------------------------------- meditation claims

\* C20: no step resets the completed flag of a meditation session, and a
\* step on a session already completed leaves its completion time as the
\* first completion set it.
C20_Step ==
    \A i \in MedSessionIds :
        meditation_sessions[i].completed =>
            /\ meditation_sessions'[i].completed
            /\ meditation_sessions'[i].completed_at = meditation_sessions[i].completed_at

C20_CompleteOneWayIdempotent == [][C20_Step]_vars

\* C21: the find-or-create step of save_reflection resumes an incomplete
\* session of the owner when one exists, and the session it creates otherwise
\* is stored with completed = false.
C21_Step ==
    \A p \in Procs :
        /\ (sr[p].pc \in {"idle", "done"} /\ sr'[p].pc \in {"insert", "update"}) =>
              IF select_incomplete_session(sr'[p].user_id) # {}
              THEN sr'[p].pc = "update"
                   /\ sr'[p].session_id \in select_incomplete_session(sr'[p].user_id)
              ELSE sr'[p].pc = "insert"
        /\ (sr[p].pc = "insert" /\ sr'[p].pc = "reflect") =>
              /\ Len(meditation_sessions') = Len(meditation_sessions) + 1
              /\ meditation_sessions'[sr'[p].session_id].completed = FALSE

C21_StartOrResume == [][C21_Step]_vars

\* C22: every stored reflection references a stored meditation session, and
\* an insert of a reflection on a session id that matches no session, or a
\* session of another owner, stores nothing and is answered with an error
\* (the violation the database raises stands for "not found").
C22_ReflectionReferencesSession ==
    /\ \A i \in 1..Len(meditation_reflections) :
          meditation_reflections[i].session_id \in MedSessionIds
    /\ (ar # ArIdle /\ (ar.session_id \notin MedSessionIds
                         \/ meditation_sessions[ar.session_id].user_id # ar.caller))
          => ar.result \in {"foreign_key_violation", "rls_violation"}

\* C24: a chat request starts from the state the previous request of the
\* user handed to save_state, from the initial state only when there was none
\* since the last reset, and hands process_message of it to save_state.
C24_Step ==
    LET u   == cr'.user_id
        prev == IF cr.last[u] = "none" THEN get_initial_state ELSE cr.last[u]
    IN  /\ (cr.pc = "idle" /\ cr'.pc = "process") => cr'.state = prev
        /\ (cr.pc = "process" /\ cr'.pc = "idle") => cr'.last[u] = process_message(prev)

C24_StateChained == [][C24_Step]_vars

\* -------------------------------------------------------- zen page claims

\* C23: within one meditation session (until a session that ran to 0 is
\* restarted) no step moves currentStage to an earlier stage.
C23_Step ==
    \/ zen'.currentStage >= zen.currentStage
    \/ zen.timeRemaining = 0 /\ zen'.timeRemaining = zen.duration * SecondsPerMinute

C23_StageMonotone == [][C23_Step]_vars

\* C26: timeRemaining never goes below 0; once it is 0 and the effects have
\* run isPlaying is false; and playback never keeps running for ever.
C26_CountdownStopsAtZero ==
    /\ [](zen.timeRemaining >= 0)
    /\ []((zen.timeRemaining = 0 /\ ~EffectsPending(zen)) => ~zen.isPlaying)
    /\ (zen.isPlaying ~> ~zen.isPlaying)

\* the EventSources that are open
OpenStreams == zen.orphans + (IF zen.ref.open THEN 1 ELSE 0)

\* C27: at most one caption EventSource is open at any time, and none once
\* playback has stopped and the effects have run.
C27_AtMostOneStream ==
    /\ OpenStreams <= 1
    /\ (~zen.isPlaying /\ ~EffectsPending(zen)) => OpenStreams = 0

\* playback went through a stage change with its stream open, then stopped
C27_Witness ==
    /\ ~zen.isPlaying
    /\ ~EffectsPending(zen)
    /\ Cardinality(zen.streamed) >= 2
    /\ zen.timeRemaining > 0

\* C28: whenever playback is running in a stage and the effects have run, a
\* caption stream for that stage was started since playback last started or
\* resumed.
C28_StreamForRunningStage ==
    (zen.isPlaying /\ ~EffectsPending(zen)) => zen.currentStage \in zen.streamed

\* ----------------------------------------------------- other page claims

\* C25: in the terminal meditation page isSessionActive is true whenever a
\* WebSocket that startSession opened has not closed yet, and at most one
\* WebSocket is connecting or open at any time.
C25_ActiveWhileSocketOpen ==
    /\ NotClosed(term) # {} => term.isSessionActive
    /\ Cardinality({i \in 1..Len(term.sockets) :
                       term.sockets[i] \in {"connecting", "open"}}) <= 1

\* C29: in the Council page a step never removes or reorders messages; a send
\* is accepted only while isLoading is false and appends one user message
\* holding trimmed text that is not blank; while isLoading is true the only
\* change is one assistant message, after which isLoading is false.
C29_Step ==
    LET old == council.messages
        new == council'.messages
    IN  /\ Len(new) >= Len(old) /\ SubSeq(new, 1, Len(old)) = old
        /\ new # old =>
              /\ Len(new) = Len(old) + 1
              /\ IF council.isLoading
                 THEN new[Len(new)].role = "assistant" /\ ~council'.isLoading
                 ELSE /\ new[Len(new)].role = "user"
                      /\ new[Len(new)].content # <<>>
                      /\ new[Len(new)].content = trim(new[Len(new)].content)
                      /\ council'.isLoading
        /\ council'.isLoading = (new[Len(new)].role = "user")

C29_SendThenOneAnswer == [][C29_Step]_vars

\* two sends were answered, one by the reply and one by the error notice, and
\* the last one was typed with blanks around the text
C29_Witness ==
    /\ ~council.isLoading
    /\ \E i, j \in 1..Len(council.messages) :
          council.messages[i].kind = "reply" /\ council.messages[j].kind = "error"
    /\ council.typed # trim(council.typed)

\* C30: in the Counsel page the messages have pairwise distinct ids, and at
\* most one chat request is in flight.
C30_DistinctIds ==
    /\ \A i, j \in 1..Len(counsel.messages) :
          i # j => counsel.messages[i].id # counsel.messages[j].id
    /\ Len(counsel.requests) <= 1

\* two sends were answered and a third text is typed
C30_Witness ==
    /\ Len(counsel.messages) = 5
    /\ counsel.requests = <<>>
    /\ trim(counsel.input) # <<>>

\* ------------------------------------------------------- conversation-state claims

HistLen == Len(hist)

\* C2: a load that follows a save for the same (owner, key), with no save or
\* clear for that key in between, returns the saved state.
C2_SaveLoadRoundTrip ==
    (HistLen >= 1 /\ hist[HistLen].op = "save" /\ loaded # "not_loaded")
        => loaded = hist[HistLen].state

\* C3: the store never holds two rows for one (owner, session key).
C3_OneRowPerKey ==
    \A sk \in StoreKeys : Cardinality(RowsOf(sk[1], sk[2])) <= 1

\* C4: after save(A) then clear a load returns absent; after a further
\* save(B) a load returns B and no row of the key still holds A.
C4_ResetScenario ==
    /\ (/\ HistLen >= 2
        /\ hist[HistLen - 1].op = "save" /\ hist[HistLen].op = "clear"
        /\ loaded # "not_loaded")
       => loaded = "absent"
    /\ (/\ HistLen >= 3
        /\ hist[HistLen - 2].op = "save" /\ hist[HistLen - 1].op = "clear"
        /\ hist[HistLen].op = "save"
        /\ hist[HistLen - 2].state # hist[HistLen].state)
       => /\ loaded # "not_loaded" => loaded = hist[HistLen].state
          /\ \A i \in RowsOf(observed[1], observed[2]) :
                conversation_history[i].agent_state # hist[HistLen - 2].state

\* C10: of two saves for one key the later upsert determines what a
\* following load returns; the earlier save's state is not returned.
C10_LastSaveWins ==
    (/\ HistLen >= 2
     /\ hist[HistLen - 1].op = "save" /\ hist[HistLen].op = "save"
     /\ hist[HistLen - 1].state # hist[HistLen].state
     /\ loaded # "not_loaded")
    => /\ loaded = hist[HistLen].state
       /\ loaded # hist[HistLen - 1].state

\* C16: a load, save or clear that finds the database failing raises to its
\* caller (the load does not return absent, the save and the clear are not
\* calls that returned normally) and leaves the table as it was.
C16_Step ==
    \A u \in Users, k \in SessionKeys :
        <<u, k>> = observed =>
            /\ load_state(u, k, FALSE) => loaded' = "raised"
            /\ clear_state(u, k, FALSE) =>
                  hist' = hist /\ conversation_history' = conversation_history
            /\ \A s \in AgentStates :
                  save_state(u, s, k, FALSE) =>
                      hist' = hist /\ conversation_history' = conversation_history

C16_FailuresReported == [][C16_Step]_vars

\* the state of the most recently updated row of a key
LatestState(u, k) ==
    LET top == CHOOSE i \in RowsOf(u, k) : \A j \in RowsOf(u, k) :
                   conversation_history[j].updated_at <= conversation_history[i].updated_at
    IN  conversation_history[top].agent_state

\* C17: with the database answering, a load returns absent (and raises
\* nothing) when the key has no row, and otherwise the state of the key's
\* most recently updated row.
C17_Step ==
    \A u \in Users, k \in SessionKeys :
        (<<u, k>> = observed
         /\ (load_state(u, k, TRUE) \/ load_conversation_state(u, k, TRUE)))
        => loaded' = IF RowsOf(u, k) = {} THEN "absent" ELSE LatestState(u, k)

C17_LoadAbsentOrLatest == [][C17_Step]_vars

\* ------------------------------------------------------------------ journal claims

\* C5: a journal query never returns an entry that was archived before the
\* query ran, whatever the query text, threshold and count; the archived row
\* itself stays in the table.
C5_ArchivedNeverReturned ==
    found.op \in {"match", "recent"} =>
        \A i \in Range(found.ids) : journal_entries[i].is_archived = FALSE

\* a similarity search returned an entry while an archived entry of the same
\* owner with the same text (so the same similarity) is still stored
C5_Witness ==
    /\ found.op = "match"
    /\ \E j \in Range(found.ids) : \E i \in EntryIds :
          /\ journal_entries[i].user_id = found.user_id
          /\ journal_entries[i].is_archived
          /\ journal_entries[i].embedding # NULL
          /\ journal_entries[i].content = journal_entries[j].content

NewerUnarchived(i) ==
    {j \in EntryIds : /\ journal_entries[j].user_id = journal_entries[i].user_id
                      /\ journal_entries[j].is_archived = FALSE
                      /\ journal_entries[j].created_at > journal_entries[i].created_at}

\* C6: when the embedding provider fails, a journal write still stores and
\* returns an entry with the text and no embedding; an entry without
\* embedding is in no similarity result, and is in the recent result
\* whenever it is among the count newest unarchived entries of its owner.
C6_SoftFailAppend ==
    /\ (found.op \in {"ingest", "mirror"} /\ ~found.provider_ok) =>
          /\ found.ids # <<>>
          /\ journal_entries[found.ids[1]].content = found.content
          /\ journal_entries[found.ids[1]].embedding = NULL
    /\ found.op = "match" =>
          \A i \in Range(found.ids) : journal_entries[i].embedding # NULL
    /\ found.op = "recent" =>
          \A i \in EntryIds :
              (/\ journal_entries[i].user_id = found.user_id
               /\ journal_entries[i].embedding = NULL
               /\ journal_entries[i].is_archived = FALSE
               /\ Cardinality(NewerUnarchived(i)) < found.count)
              => i \in Range(found.ids)

\* C13: a link step that fails is reported differently from a failed entry
\* creation (which is reported as error_500), and the retry of such a request
\* works on the followup and the entry the failed request left: it creates
\* no second followup and no second synthesized entry, and when it has
\* succeeded that followup links to that entry.
C13_LinkFailureRetry ==
    /\ (pf.pc = "done" /\ pf.failed = "link") => pf.result # "error_500"
    /\ pf.orphan_entry # NULL =>
          /\ pf.followup_id \in {NULL, pf.orphan_followup}
          /\ pf.new_id \in {NULL, pf.orphan_entry}
          /\ (pf.pc = "done" /\ pf.result = "success") =>
                journal_followups[pf.orphan_followup].synthesized_entry_id = pf.orphan_entry

\* similarity (x100) of a stored entry to the query of the last search
Similarity(i) == Cos100[Abs(journal_entries[i].embedding - found.query) + 1]

\* the entries a similarity search for found.user_id may return
Eligible ==
    {i \in EntryIds : /\ journal_entries[i].user_id = found.user_id
                      /\ journal_entries[i].is_archived = FALSE
                      /\ journal_entries[i].embedding # NULL
                      /\ Similarity(i) > found.threshold}

Unarchived ==
    {i \in EntryIds : /\ journal_entries[i].user_id = found.user_id
                      /\ journal_entries[i].is_archived = FALSE}

\* C12: a recent-entries query returns min(count, number of unarchived
\* entries of the owner) entries, newest first, none of them older than an
\* omitted one, whether or not they carry an embedding.
C12_FindRecentExact ==
    found.op = "recent" =>
        /\ Len(found.ids) = Min(found.count, Cardinality(Unarchived))
        /\ \A k \in 1..Len(found.ids) : found.ids[k] \in Unarchived
        /\ \A k, l \in 1..Len(found.ids) :
              k < l => journal_entries[found.ids[k]].created_at
                          > journal_entries[found.ids[l]].created_at
        /\ \A i \in Unarchived \ Range(found.ids) :
              \A k \in 1..Len(found.ids) :
                  journal_entries[i].created_at < journal_entries[found.ids[k]].created_at

\* a recent-entries query cut off by its count returned an entry without
\* embedding and left out an older unarchived one
C12_Witness ==
    /\ found.op = "recent"
    /\ Len(found.ids) = 1
    /\ journal_entries[found.ids[1]].embedding = NULL
    /\ Unarchived \ Range(found.ids) # {}

\* C18: a journal search whose query embedding or similarity query failed
\* raises nothing and returns the most recent unarchived entries of the owner.
C18_SearchFallsBackToRecent ==
    (found.op = "search" /\ (~found.provider_ok \/ ~found.rpc_ok)) =>
        /\ ~found.raised
        /\ found.ids \in get_recent_journal_entries(found.user_id, found.count)

\* C8: when process_follow_up has returned success, the synthesized entry is
\* not the original entry and the stored followup links to it.
C8_FollowupLinked ==
    (pf.pc = "done" /\ pf.result = "success") =>
        /\ pf.new_id # pf.entry_id
        /\ journal_followups[pf.followup_id].synthesized_entry_id = pf.new_id

====
